---------------------------- MODULE Spec2Model ----------------------------
(***************************************************************************)
(* State-machine model of the lift simulation engine (core/environment.py, *)
(* core/elevator.py, core/passenger.py, core/metrics.py,                   *)
(* core/dispatcher.py).                                                    *)
(*                                                                         *)
(* The engine state is the state of one LiftSimEnvironment object.  The    *)
(* operations are its methods: reset, step, and the phase methods step is  *)
(* built from (_spawn_passengers, _dispatch_new, apply_actions,            *)
(* _move_elevators, _finalize_unserved).  Every phase is a function from   *)
(* an engine record to an engine record, so that step is the composition   *)
(* the source writes, and each phase is also an operation a caller of the  *)
(* class can invoke on its own.                                            *)
(*                                                                         *)
(* Python's None is modelled by the value None (times are >= 0 and         *)
(* elevator ids are >= 1, so -1 is free).  An attribute read of a field    *)
(* the object does not have raises AttributeError, as in Python.           *)
(***************************************************************************)
EXTENDS Integers, Sequences, FiniteSets, TLC

VARIABLES config, time, passengers, elevators, metrics, next_passenger_id,
          finalized

vars == <<config, time, passengers, elevators, metrics, next_passenger_id,
          finalized>>

(***************************************************************************)
(* Bounds of the model.  MaxSize bounds the size of a run: the floors, the *)
(* elevators and the passengers created add up to at most MaxSize.         *)
(* MaxRejected bounds the rejection counter.                               *)
(***************************************************************************)
MaxSize == 5
MaxRejected == 1

None == -1

\* random() draws and spawn probabilities, in tenths: random() is in [0.0, 1.0)
RandomDraws == {0, 5, 9}

\* SimulationConfig: a plain dataclass, no validation at construction.  The
\* configurations the model runs.
Config(f, e, c, d, sp, h) ==
    [floors |-> f, elevators |-> e, capacity |-> c, dwell_time_s |-> d,
     spawn_prob |-> sp, horizon_s |-> h]

Configs ==
    {Config(2, 1, 1, 1, 0, 2),
     Config(2, 1, 1, 0, 5, 0),
     Config(2, 1, 2, 2, 5, 2),
     Config(3, 1, 1, 1, 5, 2),
     Config(2, 2, 1, 1, 5, 2)}

MaxPassengers(cfg) == MaxSize - cfg.floors - cfg.elevators

Range(s) == {s[i] : i \in 1..Len(s)}

Max(a, b) == IF a >= b THEN a ELSE b

Abs(x) == IF x < 0 THEN -x ELSE x

(***************************************************************************)
(* core/passenger.py                                                       *)
(***************************************************************************)
Passenger(pid, appear, origin, dest) ==
    [id |-> pid, appear_time |-> appear, origin_floor |-> origin,
     dest_floor |-> dest, assigned_elevator |-> None, board_time |-> None,
     arrive_time |-> None]

waiting_time(p) ==
    IF p.board_time = None THEN None ELSE p.board_time - p.appear_time

ride_time(p) ==
    IF p.board_time = None \/ p.arrive_time = None
    THEN None
    ELSE p.arrive_time - p.board_time

(***************************************************************************)
(* core/elevator.py                                                        *)
(***************************************************************************)
Elevator(eid, cap) ==
    [id |-> eid, capacity |-> cap, current_floor |-> 1, direction |-> 0,
     door_state |-> "closed", move_state |-> "idle", target_queue |-> <<>>,
     passengers |-> <<>>, dwell_remaining |-> 0]

\* a capacity test that is off by one
is_full_off_by_one(e) == Len(e.passengers) > e.capacity

is_full(e) == Len(e.passengers) >= e.capacity

\* an enqueue that forgets the membership test
enqueue_stop_no_dedup(e, floor, force) ==
    IF is_full(e) /\ ~force
    THEN e
    ELSE [e EXCEPT !.target_queue = Append(@, floor)]

enqueue_stop(e, floor, force) ==
    IF is_full(e) /\ ~force
    THEN e
    ELSE IF floor \in Range(e.target_queue)
         THEN e
         ELSE [e EXCEPT !.target_queue = Append(@, floor)]

\* a dwell that is skipped when the dwell time is 0
begin_dwell_skips_zero(e, dwell_time) ==
    IF dwell_time = 0
    THEN [e EXCEPT !.move_state = "idle", !.door_state = "closed",
                   !.dwell_remaining = 0, !.direction = 0]
    ELSE [e EXCEPT !.move_state = "dwell", !.door_state = "open",
                   !.dwell_remaining = dwell_time, !.direction = 0]

begin_dwell(e, dwell_time) ==
    [e EXCEPT !.move_state = "dwell", !.door_state = "open",
              !.dwell_remaining = dwell_time, !.direction = 0]

\* a countdown that goes back to idle but leaves the door open
tick_dwell_keeps_door_open(e) ==
    LET rem == Max(0, e.dwell_remaining - 1)
    IN  IF rem = 0
        THEN [e EXCEPT !.dwell_remaining = rem, !.move_state = "idle"]
        ELSE [e EXCEPT !.dwell_remaining = rem]

tick_dwell(e) ==
    LET rem == Max(0, e.dwell_remaining - 1)
    IN  IF rem = 0
        THEN [e EXCEPT !.dwell_remaining = rem, !.move_state = "idle",
                       !.door_state = "closed"]
        ELSE [e EXCEPT !.dwell_remaining = rem]

\* a move that goes to the target at once
move_toward_jumps(e, target_floor) ==
    IF target_floor = e.current_floor
    THEN e
    ELSE LET dir == IF target_floor > e.current_floor THEN 1 ELSE -1
         IN  [e EXCEPT !.move_state = "moving", !.direction = dir,
                       !.current_floor = target_floor]

move_toward(e, target_floor) ==
    IF target_floor = e.current_floor
    THEN e
    ELSE LET dir == IF target_floor > e.current_floor THEN 1 ELSE -1
         IN  [e EXCEPT !.move_state = "moving", !.direction = dir,
                       !.current_floor = @ + dir]

(***************************************************************************)
(* core/metrics.py.  The collector declares four fields and the methods    *)
(* record_completion, record_rejection, summary, _avg, _percentile.        *)
(***************************************************************************)
MetricsCollector ==
    [wait_times |-> <<>>, ride_times |-> <<>>, completed |-> 0, rejected |-> 0]

MetricsMethods ==
    {"record_completion", "record_rejection", "summary", "_avg", "_percentile"}

\* Python attribute lookup on the collector: fields and methods
HasAttr(m, name) == name \in DOMAIN m \/ name \in MetricsMethods

record_completion(m, wait, ride) ==
    [m EXCEPT !.wait_times = Append(@, wait), !.ride_times = Append(@, ride),
              !.completed = @ + 1]

record_rejection(m) == [m EXCEPT !.rejected = @ + 1]

(***************************************************************************)
(* The engine record the phase functions transform.                        *)
(***************************************************************************)
Fleet(cfg) == [i \in 1..cfg.elevators |-> Elevator(i, cfg.capacity)]

\* a reset that forgets to clear the finalization flag
NewEnv_keeps_finalized(cfg) ==
    [time |-> 0, passengers |-> <<>>, elevators |-> Fleet(cfg),
     metrics |-> MetricsCollector, next_passenger_id |-> 1,
     finalized |-> finalized]

NewEnv(cfg) ==
    [time |-> 0, passengers |-> <<>>, elevators |-> Fleet(cfg),
     metrics |-> MetricsCollector, next_passenger_id |-> 1,
     finalized |-> FALSE]

Env ==
    [time |-> time, passengers |-> passengers, elevators |-> elevators,
     metrics |-> metrics, next_passenger_id |-> next_passenger_id,
     finalized |-> finalized]

(***************************************************************************)
(* core/dispatcher.py                                                      *)
(***************************************************************************)
\* a pick that takes the first non-full elevator, whatever its distance
pick_elevator_first_free(elevs, origin_floor) ==
    LET candidates == {i \in DOMAIN elevs : ~is_full(elevs[i])}
    IN  IF candidates = {}
        THEN None
        ELSE CHOOSE i \in candidates : \A j \in candidates : i <= j

pick_elevator(elevs, origin_floor) ==
    LET candidates == {i \in DOMAIN elevs : ~is_full(elevs[i])}
        key(i) == Abs(elevs[i].current_floor - origin_floor)
    IN  IF candidates = {}
        THEN None
        ELSE CHOOSE i \in candidates :
                 \A j \in candidates :
                     key(i) < key(j) \/ (key(i) = key(j) /\ i <= j)

\* an assignment that does not ask the elevator for the passenger's floor
RECURSIVE assign_forgets_stop(_, _, _)
assign_forgets_stop(S, pids, k) ==
    IF k > Len(pids)
    THEN S
    ELSE LET p == S.passengers[pids[k]]
             best == pick_elevator(S.elevators, p.origin_floor)
         IN  IF p.assigned_elevator # None \/ best = None
             THEN assign_forgets_stop(S, pids, k + 1)
             ELSE assign_forgets_stop(
                      [S EXCEPT !.passengers[p.id].assigned_elevator =
                                    S.elevators[best].id],
                      pids, k + 1)

RECURSIVE assign(_, _, _)
assign(S, pids, k) ==
    IF k > Len(pids)
    THEN S
    ELSE LET p == S.passengers[pids[k]]
             best == pick_elevator(S.elevators, p.origin_floor)
         IN  IF p.assigned_elevator # None
             THEN assign(S, pids, k + 1)
             ELSE IF best = None
             THEN assign(S, pids, k + 1)
             ELSE LET e == S.elevators[best]
                      S1 == [S EXCEPT !.passengers[p.id].assigned_elevator = e.id]
                      S2 == IF ~is_full(e)
                            THEN [S1 EXCEPT !.elevators[best] =
                                      enqueue_stop(e, p.origin_floor, FALSE)]
                            ELSE S1
                  IN  assign(S2, pids, k + 1)


(***************************************************************************)
(* core/environment.py: the phase methods of LiftSimEnvironment.           *)
(***************************************************************************)

\* _spawn_passengers: draw is the value of rng.random(); origin and dest are
\* the values of rng.randint, dest being redrawn until it differs from origin
\* a spawn that forgets to advance the id counter
spawn_passengers_reuses_id(S, cfg, draw, origin, dest) ==
    IF draw > cfg.spawn_prob
    THEN S
    ELSE LET pid == S.next_passenger_id
         IN  [S EXCEPT !.passengers =
                           Append(@, Passenger(pid, S.time, origin, dest))]

spawn_passengers(S, cfg, draw, origin, dest) ==
    IF draw > cfg.spawn_prob
    THEN S
    ELSE LET pid == S.next_passenger_id
         IN  [S EXCEPT !.next_passenger_id = pid + 1,
                       !.passengers =
                           Append(@, Passenger(pid, S.time, origin, dest))]

\* the ids of a list of passengers, in the list's order
Ids(ps) == [k \in 1..Len(ps) |-> ps[k].id]

dispatch_new(S) ==
    LET unassigned(p) == p.assigned_elevator = None
        new_passengers == Ids(SelectSeq(S.passengers, unassigned))
    IN  IF new_passengers # <<>> THEN assign(S, new_passengers, 1) ELSE S

\* an action loop that forgets the upper end of the floor range
RECURSIVE apply_loop_no_upper_bound(_, _, _, _)
apply_loop_no_upper_bound(S, cfg, actions, i) ==
    IF i > Len(S.elevators)
    THEN S
    ELSE LET target == actions[i]
             e == S.elevators[i]
         IN  IF target = None \/ target = 0
             THEN apply_loop_no_upper_bound(S, cfg, actions, i + 1)
             ELSE IF 1 <= target /\ ~is_full(e)
             THEN apply_loop_no_upper_bound(
                      [S EXCEPT !.elevators[i] = enqueue_stop(e, target, FALSE)],
                      cfg, actions, i + 1)
             ELSE apply_loop_no_upper_bound(S, cfg, actions, i + 1)

\* apply_actions: raises ValueError on a length mismatch, before any change
RECURSIVE apply_loop(_, _, _, _)
apply_loop(S, cfg, actions, i) ==
    IF i > Len(S.elevators)
    THEN S
    ELSE LET target == actions[i]
             e == S.elevators[i]
         IN  IF target = None \/ target = 0
             THEN apply_loop(S, cfg, actions, i + 1)
             ELSE IF 1 <= target /\ target <= cfg.floors /\ ~is_full(e)
             THEN apply_loop([S EXCEPT !.elevators[i] =
                                  enqueue_stop(e, target, FALSE)],
                             cfg, actions, i + 1)
             ELSE apply_loop(S, cfg, actions, i + 1)

apply_actions(S, cfg, actions) ==
    IF Len(actions) # Len(S.elevators)
    THEN [env |-> S, raised |-> "ValueError"]
    ELSE [env |-> apply_loop(S, cfg, actions, 1), raised |-> "none"]

\* list.remove: drops the first occurrence
RemoveFirst(s, x) ==
    LET k == CHOOSE i \in 1..Len(s) : s[i] = x /\ \A j \in 1..(i - 1) : s[j] # x
    IN  [i \in 1..(Len(s) - 1) |-> IF i < k THEN s[i] ELSE s[i + 1]]

\* _process_stop, first loop: M is [env, completed]
RECURSIVE drop_loop(_, _, _, _)
drop_loop(M, i, to_drop, k) ==
    IF k > Len(to_drop)
    THEN M
    ELSE LET S == M.env
             pid == to_drop[k]
             passenger == [S.passengers[pid] EXCEPT !.arrive_time = S.time]
             S1 == [S EXCEPT !.passengers[pid] = passenger,
                             !.elevators[i].passengers = RemoveFirst(@, pid)]
         IN  IF waiting_time(passenger) # None /\ ride_time(passenger) # None
             THEN drop_loop(
                      [env |-> [S1 EXCEPT !.metrics =
                                    record_completion(@, waiting_time(passenger),
                                                      ride_time(passenger))],
                       completed |-> Append(M.completed, pid)],
                      i, to_drop, k + 1)
             ELSE drop_loop([M EXCEPT !.env = S1], i, to_drop, k + 1)

\* a boarding loop that records the rejection but keeps the assignment
RECURSIVE board_loop_keeps_assignment(_, _, _, _)
board_loop_keeps_assignment(S, i, waiting, k) ==
    IF k > Len(waiting)
    THEN S
    ELSE LET p == S.passengers[waiting[k]]
             e == S.elevators[i]
         IN  IF is_full(e)
             THEN board_loop_keeps_assignment(
                      [S EXCEPT !.metrics = record_rejection(@)],
                      i, waiting, k + 1)
             ELSE board_loop_keeps_assignment(
                      [S EXCEPT !.passengers[p.id].board_time = S.time,
                                !.elevators[i] =
                                    enqueue_stop(
                                        [e EXCEPT !.passengers = Append(@, p.id)],
                                        p.dest_floor, FALSE)],
                      i, waiting, k + 1)

\* _process_stop, second loop
RECURSIVE board_loop(_, _, _, _)
board_loop(S, i, waiting, k) ==
    IF k > Len(waiting)
    THEN S
    ELSE LET p == S.passengers[waiting[k]]
             e == S.elevators[i]
         IN  IF is_full(e)
             THEN board_loop(
                      [S EXCEPT !.metrics = record_rejection(@),
                                !.passengers[p.id].assigned_elevator = None],
                      i, waiting, k + 1)
             ELSE board_loop(
                      [S EXCEPT !.passengers[p.id].board_time = S.time,
                                !.elevators[i] =
                                    enqueue_stop(
                                        [e EXCEPT !.passengers = Append(@, p.id)],
                                        p.dest_floor, FALSE)],
                      i, waiting, k + 1)

\* a waiting filter that forgets the board_time test
is_waiting_ignores_boarded(p, e) ==
    /\ p.assigned_elevator = e.id
    /\ p.origin_floor = e.current_floor

\* the passengers _process_stop picks up: assigned here, not boarded, at this floor
is_waiting(p, e) ==
    /\ p.assigned_elevator = e.id
    /\ p.board_time = None
    /\ p.origin_floor = e.current_floor

\* a stop that boards before it sets down
process_stop_board_first(M, i) ==
    LET e == M.env.elevators[i]
        waits(p) == is_waiting(p, e)
        waiting == Ids(SelectSeq(M.env.passengers, waits))
        M1 == [M EXCEPT !.env = board_loop(M.env, i, waiting, 1)]
        leaves(pid) == M1.env.passengers[pid].dest_floor = e.current_floor
        to_drop == SelectSeq(e.passengers, leaves)
    IN  drop_loop(M1, i, to_drop, 1)

process_stop(M, i) ==
    LET e == M.env.elevators[i]
        leaves(pid) == M.env.passengers[pid].dest_floor = e.current_floor
        to_drop == SelectSeq(e.passengers, leaves)
        M1 == drop_loop(M, i, to_drop, 1)
        e1 == M1.env.elevators[i]
        waits(p) == is_waiting(p, e1)
        waiting == Ids(SelectSeq(M1.env.passengers, waits))
    IN  [M1 EXCEPT !.env = board_loop(M1.env, i, waiting, 1)]

\* the body of _move_elevators' loop for elevator i
move_one(M, cfg, i) ==
    LET e == M.env.elevators[i]
    IN  IF e.move_state = "dwell"
        THEN [M EXCEPT !.env.elevators[i] = tick_dwell(e)]
        ELSE IF e.target_queue = <<>>
        THEN [M EXCEPT !.env.elevators[i] =
                  [e EXCEPT !.direction = 0, !.move_state = "idle"]]
        ELSE LET target == e.target_queue[1]
             IN  IF e.current_floor = target
                 THEN LET M1 == process_stop(M, i)
                          e1 == M1.env.elevators[i]
                      IN  [M1 EXCEPT !.env.elevators[i] =
                               begin_dwell(
                                   [e1 EXCEPT !.target_queue = Tail(@)],
                                   cfg.dwell_time_s)]
                 ELSE [M EXCEPT !.env.elevators[i] = move_toward(e, target)]

RECURSIVE move_loop(_, _, _)
move_loop(M, cfg, i) ==
    IF i > Len(M.env.elevators)
    THEN M
    ELSE move_loop(move_one(M, cfg, i), cfg, i + 1)

move_elevators(S, cfg, completed) ==
    move_loop([env |-> S, completed |-> completed], cfg, 1)

\* _finalize_unserved: the number it returns and the state it leaves; it
\* calls metrics.record_unserved, which the collector does not define
Unserved(S) ==
    Cardinality({k \in 1..Len(S.passengers) : S.passengers[k].arrive_time = None})

finalize_unserved(S) ==
    IF S.finalized
    THEN [env |-> S, added |-> 0, raised |-> "none"]
    ELSE LET unserved == Unserved(S)
         IN  IF unserved > 0 /\ ~HasAttr(S.metrics, "record_unserved")
             THEN [env |-> S, added |-> 0, raised |-> "AttributeError"]
             ELSE [env |-> [S EXCEPT !.finalized = TRUE,
                                     !.metrics =
                                         IF unserved > 0
                                         THEN [@ EXCEPT !.unserved = @ + unserved]
                                         ELSE @],
                   added |-> unserved, raised |-> "none"]

(***************************************************************************)
(* _compute_reward, in thousandths: the weights 0.015, 2.0, 20.0, 9.0,     *)
(* 0.005 and 0.002 are 15, 2000, 20000, 9000, 5 and 2.  completed is the   *)
(* list of the passengers set down in this call.                           *)
(***************************************************************************)
\* p.waiting_time or 0, p.ride_time or 0
OrZero(x) == IF x = None THEN 0 ELSE x

RECURSIVE completion_rewards(_, _, _)
completion_rewards(S, completed, k) ==
    IF k > Len(completed)
    THEN 0
    ELSE LET p == S.passengers[completed[k]]
         IN  9000 - 5 * OrZero(waiting_time(p)) - 2 * OrZero(ride_time(p))
                 + completion_rewards(S, completed, k + 1)

compute_reward(S, delta_rejected, delta_unserved, completed) ==
    LET waiting_count ==
            Cardinality({k \in 1..Len(S.passengers) :
                             S.passengers[k].board_time = None})
    IN  0 - 15 * waiting_count - 2000 * delta_rejected - 20000 * delta_unserved
            + completion_rewards(S, completed, 1)

(***************************************************************************)
(* LiftSimEnvironment.step.  has_actions is FALSE for step(None).  The     *)
(* result is the state the call leaves, the exception it raised ("none"    *)
(* when it returned), and the terminated flag and the reward it returned   *)
(* (None when it raised).                                                  *)
(***************************************************************************)
step(S, cfg, has_actions, actions, draw, origin, dest) ==
    IF S.time >= cfg.horizon_s
    THEN LET f == finalize_unserved(S)
         IN  [env |-> f.env, raised |-> f.raised,
              terminated |-> f.raised = "none",
              reward |-> IF f.raised = "none"
                         THEN compute_reward(f.env, 0, f.added, <<>>)
                         ELSE None]
    ELSE IF ~HasAttr(S.metrics, "unserved")
    THEN \* prev_unserved = self.metrics.unserved
         [env |-> S, raised |-> "AttributeError", terminated |-> FALSE,
          reward |-> None]
    ELSE LET S1 == spawn_passengers(S, cfg, draw, origin, dest)
             S2 == dispatch_new(S1)
             a == IF has_actions
                  THEN apply_actions(S2, cfg, actions)
                  ELSE [env |-> S2, raised |-> "none"]
             m == move_elevators(a.env, cfg, <<>>)
             S4 == [m.env EXCEPT !.time = @ + 1]
             terminated == S4.time >= cfg.horizon_s
             f == IF terminated
                  THEN finalize_unserved(S4)
                  ELSE [env |-> S4, added |-> 0, raised |-> "none"]
         IN  IF a.raised # "none"
             THEN [env |-> a.env, raised |-> a.raised, terminated |-> FALSE,
                   reward |-> None]
             ELSE [env |-> f.env, raised |-> f.raised,
                   terminated |-> terminated /\ f.raised = "none",
                   reward |-> IF f.raised = "none"
                              THEN compute_reward(
                                       f.env,
                                       f.env.metrics.rejected - S.metrics.rejected,
                                       f.added, m.completed)
                              ELSE None]

(***************************************************************************)
(* The state machine.                                                      *)
(***************************************************************************)
Commit(S) ==
    /\ time' = S.time
    /\ passengers' = S.passengers
    /\ elevators' = S.elevators
    /\ metrics' = S.metrics
    /\ next_passenger_id' = S.next_passenger_id
    /\ finalized' = S.finalized

\* LiftSimEnvironment.__init__
Init ==
    /\ config \in Configs
    /\ time = 0
    /\ passengers = <<>>
    /\ elevators = Fleet(config)
    /\ metrics = MetricsCollector
    /\ next_passenger_id = 1
    /\ finalized = FALSE

\* the action sequences a caller passes: one value per elevator (0 is the
\* no-op, floors + 1 is out of range), or a sequence of another length
ActionValues == 0..(config.floors + 1)

ActionSeqs ==
    [1..config.elevators -> ActionValues]
        \cup {<<>>, [i \in 1..(config.elevators + 1) |-> 0]}

\* the values the generator can return to _spawn_passengers
SpawnDraws ==
    {d \in [draw : RandomDraws, origin : 1..config.floors,
            dest : 1..config.floors] : d.dest # d.origin}

\* what a step call is given: its actions (has_actions is FALSE for None)
\* and the generator's draws
AllStepInputs ==
    [has_actions : {TRUE}, actions : ActionSeqs, rng : SpawnDraws]
        \cup [has_actions : {FALSE}, actions : {<<>>}, rng : SpawnDraws]

\* step reads its actions and the generator only after the two early exits
\* (the horizon branch and the read of metrics.unserved); before them every
\* input gives the same result, and one stands for all
StepInputs ==
    IF time < config.horizon_s /\ HasAttr(metrics, "unserved")
    THEN AllStepInputs
    ELSE [has_actions : {FALSE}, actions : {<<>>},
          rng : {[draw |-> 0, origin |-> 1, dest |-> 2]}]

\* the result of step on the current state
StepResult(in) ==
    step(Env, config, in.has_actions, in.actions, in.rng.draw, in.rng.origin,
         in.rng.dest)

Reset ==
    /\ Commit(NewEnv(config))
    /\ UNCHANGED config

\* a step call: the state it leaves, whether it returned or raised
StepWith(in) ==
    /\ StepResult(in).env.next_passenger_id <= MaxPassengers(config) + 1
    /\ StepResult(in).env.metrics.rejected <= MaxRejected
    /\ Commit(StepResult(in).env)
    /\ UNCHANGED config

Step == \E in \in StepInputs : StepWith(in)

SpawnPassengers ==
    /\ next_passenger_id <= MaxPassengers(config)
    /\ \E d \in SpawnDraws :
           Commit(spawn_passengers(Env, config, d.draw, d.origin, d.dest))
    /\ UNCHANGED config

DispatchNew ==
    /\ Commit(dispatch_new(Env))
    /\ UNCHANGED config

ApplyActions ==
    \E actions \in ActionSeqs :
        /\ Commit(apply_actions(Env, config, actions).env)
        /\ UNCHANGED config

MoveElevators ==
    LET m == move_elevators(Env, config, <<>>)
    IN  /\ m.env.metrics.rejected <= MaxRejected
        /\ Commit(m.env)
        /\ UNCHANGED config

FinalizeUnserved ==
    /\ Commit(finalize_unserved(Env).env)
    /\ UNCHANGED config

Next ==
    \/ Reset
    \/ Step
    \/ SpawnPassengers
    \/ DispatchNew
    \/ ApplyActions
    \/ MoveElevators
    \/ FinalizeUnserved

Spec == Init /\ [][Next]_vars

(***************************************************************************)
(* Properties.                                                             *)
(***************************************************************************)
Elevators == DOMAIN elevators

Pids == DOMAIN passengers

Onboard(i) == Range(elevators[i].passengers)

\* C1: every elevator carries at most capacity passengers, in every state
C1_CapacityRespected ==
    \A i \in Elevators : Len(elevators[i].passengers) <= elevators[i].capacity

\* a car that filled up by boarding and then turned a passenger away
C1_FullCarRejected ==
    \E i \in Elevators :
        /\ Len(elevators[i].passengers) = elevators[i].capacity
        /\ elevators[i].capacity >= 1
        /\ \A pid \in Onboard(i) : passengers[pid].board_time # None
        /\ metrics.rejected >= 1

\* C2: the destination of every passenger on board is in the target queue
\* of the elevator that carries it
C2_DestinationQueued ==
    \A i \in Elevators :
        \A pid \in Onboard(i) :
            passengers[pid].dest_floor \in Range(elevators[i].target_queue)

\* the single-passenger scenario: two floors, one elevator of capacity one,
\* spawn_prob 0, one passenger that appeared at time 0 at floor 1 for floor 2
C3_Scenario ==
    /\ config.floors = 2
    /\ config.elevators = 1
    /\ config.capacity = 1
    /\ config.spawn_prob = 0
    /\ Len(passengers) = 1
    /\ passengers[1].appear_time = 0
    /\ passengers[1].origin_floor = 1
    /\ passengers[1].dest_floor = 2

\* the step calls whose actions are None or one value per elevator
ValidStepInputs ==
    {in \in AllStepInputs :
         in.has_actions => Len(in.actions) = config.elevators}

\* C3: in the scenario, step calls do not fail, and once the passenger has
\* boarded (at time 0, wait 0) the elevator is committed to floor 2 until the
\* passenger is set down there with one completion of wait_time 0
C3_ScenarioRuns ==
    C3_Scenario =>
        /\ \A in \in ValidStepInputs : StepResult(in).raised = "none"
        /\ passengers[1].board_time # None =>
               /\ passengers[1].board_time = 0
               /\ \/ /\ passengers[1].arrive_time = None
                     /\ 2 \in Range(elevators[1].target_queue)
                  \/ /\ passengers[1].arrive_time # None
                     /\ metrics.completed = 1
                     /\ metrics.wait_times = <<0>>

\* C4: in every reachable state, a step call with no actions, or with one
\* action per elevator, does not fail
C4_StepNeverFails ==
    \A in \in ValidStepInputs : StepResult(in).raised = "none"

\* the elevators that process a stop in the next _move_elevators call
Stops(i) ==
    /\ elevators[i].move_state # "dwell"
    /\ elevators[i].target_queue # <<>>
    /\ elevators[i].target_queue[1] = elevators[i].current_floor

\* the riders of elevator i whose destination is its current floor
Alighting(i) ==
    {pid \in Onboard(i) :
         passengers[pid].dest_floor = elevators[i].current_floor}

\* the passengers assigned to elevator i that wait unboarded at its floor
Waiting(i) ==
    {pid \in Pids :
         /\ passengers[pid].assigned_elevator = elevators[i].id
         /\ passengers[pid].board_time = None
         /\ passengers[pid].origin_floor = elevators[i].current_floor}

\* the room in car i once its alighting riders have left
Room(i) ==
    elevators[i].capacity - Cardinality(Onboard(i) \ Alighting(i))

\* the waiting passengers the room suffices for, in id order, and the rest
Boarders(i) ==
    {pid \in Waiting(i) :
         Cardinality({q \in Waiting(i) : q < pid}) < Room(i)}

Refused(i) == Waiting(i) \ Boarders(i)

RefusedAll == UNION {Refused(i) : i \in {j \in Elevators : Stops(j)}}

\* C5: at a stop the waiting passengers board in id order while the car has
\* room; every other one stays unboarded, loses its assignment and adds one
\* to the rejected counter
C5_Stop ==
    /\ \A i \in Elevators :
           Stops(i) =>
               /\ \A pid \in Boarders(i) :
                      /\ passengers'[pid].board_time = time
                      /\ passengers'[pid].assigned_elevator = elevators[i].id
                      /\ pid \in Range(elevators'[i].passengers)
               /\ \A pid \in Refused(i) :
                      /\ passengers'[pid].board_time = None
                      /\ passengers'[pid].assigned_elevator = None
                      /\ pid \notin Range(elevators'[i].passengers)
    /\ metrics'.rejected = metrics.rejected + Cardinality(RefusedAll)

C5_BoardingRefusal ==
    [][(DOMAIN passengers' = Pids /\ C5_Stop) \/ ~MoveElevators]_vars

\* a car of capacity 1 that has just stopped where two passengers waited:
\* one is on board, the other is unassigned with one rejection recorded
C5_OneBoardsOneRefused ==
    \E i \in Elevators :
        \E p \in Pids, q \in Pids :
            /\ elevators[i].capacity = 1
            /\ elevators[i].move_state = "dwell"
            /\ elevators[i].passengers = <<p>>
            /\ passengers[p].origin_floor = elevators[i].current_floor
            /\ passengers[p].board_time # None
            /\ p < q
            /\ passengers[q].origin_floor = elevators[i].current_floor
            /\ passengers[q].board_time = None
            /\ passengers[q].assigned_elevator = None
            /\ metrics.rejected = 1

\* C6: at a stop where a full car sets riders down, they leave the car
\* before boarding is decided: the waiting passengers the freed places
\* suffice for board in that same call and keep their assignment
C6_Stop ==
    \A i \in Elevators :
        (Stops(i) /\ Len(elevators[i].passengers) >= elevators[i].capacity
                  /\ Alighting(i) # {}) =>
            /\ \A pid \in Alighting(i) :
                   /\ passengers'[pid].arrive_time = time
                   /\ pid \notin Range(elevators'[i].passengers)
            /\ \A pid \in Waiting(i) :
                   Cardinality({q \in Waiting(i) : q < pid})
                       < Cardinality(Alighting(i)) =>
                       /\ passengers'[pid].board_time = time
                       /\ passengers'[pid].assigned_elevator = elevators[i].id
                       /\ pid \in Range(elevators'[i].passengers)
            /\ (RefusedAll = {} => metrics'.rejected = metrics.rejected)

C6_DisembarkBeforeBoard ==
    [][(DOMAIN passengers' = Pids /\ C6_Stop) \/ ~MoveElevators]_vars

\* a car of capacity 1 that has just stopped, set down its rider and taken
\* the passenger waiting there, no rejection recorded
C6_SwappedAtFullCar ==
    \E i \in Elevators :
        \E p \in Pids, q \in Pids :
            /\ elevators[i].capacity = 1
            /\ elevators[i].move_state = "dwell"
            /\ elevators[i].dwell_remaining = config.dwell_time_s
            /\ elevators[i].passengers = <<q>>
            /\ passengers[p].arrive_time # None
            /\ passengers[p].dest_floor = elevators[i].current_floor
            /\ passengers[q].origin_floor = elevators[i].current_floor
            /\ passengers[q].board_time = passengers[p].arrive_time
            /\ metrics.rejected = 0

\* the passengers a call sets down
SetDown ==
    {pid \in Pids :
         passengers[pid].arrive_time = None /\ passengers'[pid].arrive_time # None}

\* C7: within a run a passenger record is kept, its board_time and its
\* arrive_time never change once set, every set-down is recorded as one
\* completion, an arrived passenger is in no car again and no passenger is
\* in a car twice
C7_Once ==
    /\ \A pid \in Pids :
           /\ pid \in DOMAIN passengers'
           /\ passengers[pid].board_time # None =>
                  passengers'[pid].board_time = passengers[pid].board_time
           /\ passengers[pid].arrive_time # None =>
                  /\ passengers'[pid].arrive_time = passengers[pid].arrive_time
                  /\ \A i \in Elevators :
                         pid \notin Range(elevators'[i].passengers)
    /\ metrics'.completed = metrics.completed + Cardinality(SetDown)
    /\ \A i \in Elevators :
           Len(elevators'[i].passengers)
               = Cardinality(Range(elevators'[i].passengers))

C7_ExactlyOnce == [][C7_Once \/ Reset]_vars

\* a passenger that has arrived, and whose elevator has stopped once more at
\* the floor the passenger started from
C7_ArrivedAndRevisited ==
    \E pid \in Pids :
        \E i \in Elevators :
            /\ passengers[pid].arrive_time # None
            /\ passengers[pid].assigned_elevator = elevators[i].id
            /\ elevators[i].current_floor = passengers[pid].origin_floor
            /\ elevators[i].move_state = "dwell"
            /\ metrics.completed >= 1

\* C8: every step call that returns moves the clock forward by one
C8_ClockAdvances ==
    [][\A in \in StepInputs :
           (StepWith(in) /\ StepResult(in).raised = "none") =>
               time' = time + 1]_vars

\* C9: every step call returns, with terminated true exactly when the clock
\* after the call has reached horizon_s
C9_TerminatedAtHorizon ==
    \A in \in ValidStepInputs :
        /\ StepResult(in).raised = "none"
        /\ StepResult(in).terminated
               <=> StepResult(in).env.time >= config.horizon_s

\* C10: a step call that finds or brings the clock at the horizon returns
\* and leaves the unserved passengers finalized
C10_FinalizedAtHorizon ==
    \A in \in ValidStepInputs :
        time >= config.horizon_s =>
            /\ StepResult(in).raised = "none"
            /\ StepResult(in).env.finalized

\* the passengers of S that have arrived, and those that have not
Arrived(S) ==
    {k \in 1..Len(S.passengers) : S.passengers[k].arrive_time # None}

\* the accounting of a finalized run: the collector has an unserved counter,
\* completed counts the arrived passengers, unserved the others, and the two
\* add up to the passengers created
Accounted(S) ==
    /\ HasAttr(S.metrics, "unserved")
    /\ S.metrics.completed = Cardinality(Arrived(S))
    /\ S.metrics.unserved = Unserved(S)
    /\ S.metrics.completed + S.metrics.unserved = Len(S.passengers)

\* C11: once the horizon has been finalized, completed + unserved is the
\* number of passengers created, each counted in exactly one of the two, and
\* a further step call leaves it so
C11_PassengerAccounting ==
    finalized =>
        /\ Accounted(Env)
        /\ \A in \in ValidStepInputs :
               /\ StepResult(in).raised = "none"
               /\ Accounted(StepResult(in).env)

\* C12: no elevator's target_queue holds the same floor twice
C12_NoDuplicateStops ==
    \A i \in Elevators :
        Len(elevators[i].target_queue)
            = Cardinality(Range(elevators[i].target_queue))

\* two passengers wait for the same elevator at the same floor (the
\* dispatcher asked for that floor twice), and the queue holds that floor
\* once, next to another stop
C12_FloorRequestedTwice ==
    \E i \in Elevators :
        \E p \in Pids, q \in Pids :
            /\ p # q
            /\ passengers[p].assigned_elevator = elevators[i].id
            /\ passengers[q].assigned_elevator = elevators[i].id
            /\ passengers[p].board_time = None
            /\ passengers[q].board_time = None
            /\ passengers[p].origin_floor = passengers[q].origin_floor
            /\ passengers[p].origin_floor \in Range(elevators[i].target_queue)
            /\ Len(elevators[i].target_queue) >= 2

\* the elevators with room, and the distance of elevator i to a floor
NonFull ==
    {i \in Elevators : Len(elevators[i].passengers) < elevators[i].capacity}

Distance(i, floor) == Abs(elevators[i].current_floor - floor)

\* the passengers no elevator is assigned to
Unassigned == {pid \in Pids : passengers[pid].assigned_elevator = None}

\* the non-full elevator nearest to a floor, the lowest id among the nearest
Nearest(floor) ==
    CHOOSE i \in NonFull :
        \A j \in NonFull :
            \/ Distance(i, floor) < Distance(j, floor)
            \/ /\ Distance(i, floor) = Distance(j, floor)
               /\ elevators[i].id <= elevators[j].id

\* the floors the dispatcher asks elevator i for
Requested(i) ==
    {passengers[pid].origin_floor :
         pid \in {q \in Unassigned :
                      NonFull # {} /\ Nearest(passengers[q].origin_floor) = i}}

\* C13: the dispatcher assigns every unassigned passenger to the nearest
\* non-full elevator (lowest id among ties) and puts the origin floor into
\* that elevator's queue; when every elevator is full the passenger stays
\* unassigned, to be offered again, and no queue changes
C13_Policy ==
    /\ \A pid \in Unassigned :
           IF NonFull # {}
           THEN LET best == Nearest(passengers[pid].origin_floor)
                IN  /\ passengers'[pid].assigned_elevator = elevators[best].id
                    /\ passengers[pid].origin_floor
                           \in Range(elevators'[best].target_queue)
           ELSE passengers'[pid].assigned_elevator = None
    /\ \A pid \in Pids \ Unassigned : passengers'[pid] = passengers[pid]
    /\ \A i \in Elevators :
           /\ Range(elevators'[i].target_queue)
                  = Range(elevators[i].target_queue) \cup Requested(i)
           /\ SubSeq(elevators'[i].target_queue, 1,
                     Len(elevators[i].target_queue))
                  = elevators[i].target_queue
    /\ NonFull = {} => elevators' = elevators

C13_DispatchPolicy ==
    [][(DOMAIN passengers' = Pids /\ C13_Policy) \/ ~DispatchNew]_vars

\* a passenger assigned to elevator 2, which stands at the passenger's
\* floor, while elevator 1 has room but is further away
C13_NearerElevatorChosen ==
    \E pid \in Pids :
        /\ Cardinality(Elevators) >= 2
        /\ passengers[pid].assigned_elevator = elevators[2].id
        /\ passengers[pid].board_time = None
        /\ elevators[2].current_floor = passengers[pid].origin_floor
        /\ elevators[1].current_floor # passengers[pid].origin_floor
        /\ Len(elevators[1].passengers) < elevators[1].capacity
        /\ passengers[pid].origin_floor \in Range(elevators[2].target_queue)

\* the step calls whose actions sequence has another length than the fleet
MismatchedStepInputs ==
    {in \in AllStepInputs :
         in.has_actions /\ Len(in.actions) # config.elevators}

\* C14: a step call with an actions sequence of the wrong length fails with
\* ValueError, and the actions change no elevator
C14_LengthMismatchRejected ==
    \A in \in MismatchedStepInputs :
        /\ StepResult(in).raised = "ValueError"
        /\ apply_actions(Env, config, in.actions).env.elevators = elevators

\* the action sequences with one value per elevator
FittingActions == {a \in ActionSeqs : Len(a) = config.elevators}

\* the queue of elevator i after the command a: a is appended iff it is a
\* floor of the building, the car has room and the queue does not hold it
Commanded(i, a) ==
    IF /\ a # 0
       /\ a \in 1..config.floors
       /\ Len(elevators[i].passengers) < elevators[i].capacity
       /\ a \notin Range(elevators[i].target_queue)
    THEN Append(elevators[i].target_queue, a)
    ELSE elevators[i].target_queue

\* C15: apply_actions raises nothing; a value of 0, a value outside
\* [1, floors] and a value for a full elevator leave the queue as it is, any
\* other value is appended iff the queue does not hold it; nothing but the
\* target queues changes
C15_ExternalCommands ==
    \A a \in FittingActions :
        /\ apply_actions(Env, config, a).raised = "none"
        /\ apply_actions(Env, config, a).env
               = [Env EXCEPT !.elevators =
                      [i \in Elevators |->
                           [elevators[i] EXCEPT
                                !.target_queue = Commanded(i, a[i])]]]

\* no passenger was ever created, and an elevator has two stops in its
\* queue: both were put there by external commands
C15_CommandedStops ==
    /\ passengers = <<>>
    /\ next_passenger_id = 1
    /\ \E i \in Elevators : Len(elevators[i].target_queue) >= 2

\* the state a reset must leave
C17_Fresh ==
    /\ time' = 0
    /\ passengers' = <<>>
    /\ next_passenger_id' = 1
    /\ DOMAIN elevators' = 1..config.elevators
    /\ \A i \in DOMAIN elevators' :
           /\ elevators'[i].id = i
           /\ elevators'[i].capacity = config.capacity
           /\ elevators'[i].current_floor = 1
           /\ elevators'[i].target_queue = <<>>
           /\ elevators'[i].passengers = <<>>
           /\ elevators'[i].move_state = "idle"
           /\ elevators'[i].door_state = "closed"
           /\ elevators'[i].direction = 0
           /\ elevators'[i].dwell_remaining = 0
    /\ metrics'.completed = 0
    /\ metrics'.rejected = 0
    /\ metrics'.wait_times = <<>>
    /\ metrics'.ride_times = <<>>
    /\ finalized' = FALSE
    /\ config' = config

\* C17: reset, from any reachable state, leaves the initial state: clock 0,
\* no passengers, next id 1, a fresh fleet, empty metrics, flag cleared
C17_ResetRestores == [][Reset => C17_Fresh]_vars

\* a finalized run with an arrived passenger, a recorded completion and an
\* elevator away from floor 1: a state reset has everything to undo in
C17_FinalizedRun ==
    /\ finalized
    /\ metrics.completed >= 1
    /\ next_passenger_id >= 2
    /\ \E pid \in Pids : passengers[pid].arrive_time # None
    /\ \E i \in Elevators : elevators[i].current_floor # 1

\* C18: with spawn_prob = 0 no passenger is ever created, whatever the
\* generator draws, so nothing is completed and the wait-time sample is empty
C18_NoSpawnAtZero ==
    config.spawn_prob = 0 =>
        /\ passengers = <<>>
        /\ next_passenger_id = 1
        /\ metrics.completed = 0
        /\ metrics.wait_times = <<>>

\* C19: no engine exists with a configuration outside the documented
\* ranges: floors >= 2, elevators >= 1, capacity >= 1, dwell seconds >= 0,
\* spawn probability in [0, 1] (in tenths), horizon >= 1
C19_ConfigValidated ==
    /\ config.floors >= 2
    /\ config.elevators >= 1
    /\ config.capacity >= 1
    /\ config.dwell_time_s >= 0
    /\ config.spawn_prob \in 0..10
    /\ config.horizon_s >= 1

\* C20: a call creates at most one passenger and keeps the identity of the
\* others; the one created has the next sequential id, floors within
\* [1, floors] that differ, appear_time equal to the clock, no assignment
\* and no board_time or arrive_time
C20_Created ==
    /\ Len(passengers') \in {Len(passengers), Len(passengers) + 1}
    /\ \A pid \in Pids :
           /\ passengers'[pid].id = pid
           /\ passengers'[pid].origin_floor = passengers[pid].origin_floor
           /\ passengers'[pid].dest_floor = passengers[pid].dest_floor
           /\ passengers'[pid].appear_time = passengers[pid].appear_time
    /\ IF Len(passengers') = Len(passengers)
       THEN next_passenger_id' = next_passenger_id
       ELSE LET p == passengers'[Len(passengers')]
            IN  /\ p.id = next_passenger_id
                /\ p.id = Len(passengers) + 1
                /\ next_passenger_id' = next_passenger_id + 1
                /\ p.origin_floor \in 1..config.floors
                /\ p.dest_floor \in 1..config.floors
                /\ p.origin_floor # p.dest_floor
                /\ p.appear_time = time
                /\ p.assigned_elevator = None
                /\ p.board_time = None
                /\ p.arrive_time = None

C20_SpawnWellFormed == [][Reset \/ C20_Created]_vars

\* two passengers were created, the first of them has boarded since, and
\* the ids are 1 and 2 with 3 the next
C20_TwoCreated ==
    /\ Len(passengers) = 2
    /\ passengers[1].id = 1
    /\ passengers[2].id = 2
    /\ passengers[1].board_time # None
    /\ passengers[2].board_time = None
    /\ next_passenger_id = 3

\* the door of every elevator is open exactly while it dwells, and a
\* dwelling elevator has direction 0
DoorsConsistent(elevs) ==
    \A i \in DOMAIN elevs :
        /\ elevs[i].door_state = "open" <=> elevs[i].move_state = "dwell"
        /\ elevs[i].door_state \in {"open", "closed"}
        /\ elevs[i].move_state = "dwell" => elevs[i].direction = 0

\* C21: the door is open iff the elevator dwells; a dwelling elevator has
\* direction 0 and keeps its floor over the call, and no elevator changes
\* floor in a call that starts with its door open
C21_Dwell ==
    /\ DoorsConsistent(elevators)
    /\ DoorsConsistent(elevators')
    /\ \A i \in Elevators :
           (elevators[i].move_state = "dwell"
                \/ elevators[i].door_state = "open") =>
               elevators'[i].current_floor = elevators[i].current_floor

C21_DoorDwellConsistency == [][Reset \/ C21_Dwell]_vars

\* an elevator in the middle of a dwell away from floor 1: door open, one
\* second counted down, one still to go
C21_MidDwell ==
    \E i \in Elevators :
        /\ elevators[i].move_state = "dwell"
        /\ elevators[i].door_state = "open"
        /\ elevators[i].current_floor # 1
        /\ config.dwell_time_s = 2
        /\ elevators[i].dwell_remaining = 1

\* elevator i travels in the next _move_elevators call: it does not dwell
\* and the head of its queue is another floor
Travels(i) ==
    /\ elevators[i].move_state # "dwell"
    /\ elevators[i].target_queue # <<>>
    /\ elevators[i].target_queue[1] # elevators[i].current_floor

\* C22: over a call an elevator's floor changes by at most one; an elevator
\* that does not dwell and whose queue head is another floor moves exactly
\* one floor toward it in _move_elevators, with direction +1 or -1
\* accordingly; the floor is within [1, floors] in every state
C22_Motion ==
    /\ \A i \in Elevators :
           /\ elevators[i].current_floor \in 1..config.floors
           /\ elevators'[i].current_floor \in 1..config.floors
           /\ Abs(elevators'[i].current_floor - elevators[i].current_floor) <= 1
    /\ MoveElevators =>
           \A i \in Elevators :
               IF Travels(i)
               THEN LET dir == IF elevators[i].target_queue[1]
                                      > elevators[i].current_floor
                               THEN 1 ELSE -1
                    IN  /\ elevators'[i].current_floor
                               = elevators[i].current_floor + dir
                        /\ elevators'[i].direction = dir
                        /\ elevators'[i].move_state = "moving"
               ELSE elevators'[i].current_floor = elevators[i].current_floor

C22_MotionBound == [][Reset \/ C22_Motion]_vars

\* an elevator on its way down from the top floor of a three-floor building
C22_MovingDown ==
    \E i \in Elevators :
        /\ config.floors = 3
        /\ elevators[i].move_state = "moving"
        /\ elevators[i].direction = -1
        /\ elevators[i].current_floor = 2
        /\ elevators[i].target_queue # <<>>
        /\ elevators[i].target_queue[1] = 1

\* C23: an elevator that processes a stop keeps its floor, loses the queue
\* head and starts to dwell with its door open, also when dwell_time_s is 0;
\* a dwelling elevator keeps its floor and its queue while dwell_remaining
\* goes down by one, the door staying open until the count is zero, when
\* the door closes and the car is idle: it moves in a later call at the
\* earliest
C23_Stop ==
    \A i \in Elevators :
        /\ Stops(i) =>
               /\ elevators'[i].current_floor = elevators[i].current_floor
               /\ elevators'[i].move_state = "dwell"
               /\ elevators'[i].door_state = "open"
               /\ elevators'[i].dwell_remaining = config.dwell_time_s
               /\ elevators[i].current_floor
                      \notin Range(elevators'[i].target_queue)
               /\ Range(elevators[i].target_queue)
                      \ {elevators[i].current_floor}
                      \subseteq Range(elevators'[i].target_queue)
        /\ elevators[i].move_state = "dwell" =>
               /\ elevators'[i].current_floor = elevators[i].current_floor
               /\ elevators'[i].target_queue = elevators[i].target_queue
               /\ elevators'[i].dwell_remaining
                      = Max(0, elevators[i].dwell_remaining - 1)
               /\ IF elevators'[i].dwell_remaining = 0
                  THEN /\ elevators'[i].move_state = "idle"
                       /\ elevators'[i].door_state = "closed"
                  ELSE /\ elevators'[i].move_state = "dwell"
                       /\ elevators'[i].door_state = "open"

C23_DwellIntervenes == [][C23_Stop \/ ~MoveElevators]_vars

\* with dwell_time_s = 0: an elevator dwells, door open, at the floor it
\* went to, with a further stop queued that it has not set out for
C23_DwellOfZero ==
    \E i \in Elevators :
        /\ config.dwell_time_s = 0
        /\ elevators[i].move_state = "dwell"
        /\ elevators[i].door_state = "open"
        /\ elevators[i].dwell_remaining = 0
        /\ elevators[i].current_floor = 2
        /\ elevators[i].target_queue = <<1>>

RECURSIVE SumOver(_, _)
SumOver(set, f) ==
    IF set = {}
    THEN 0
    ELSE LET x == CHOOSE y \in set : TRUE
         IN  f[x] + SumOver(set \ {x}, f)

\* the reward of a call that took the engine from S to T, in thousandths:
\* -15 for each passenger without board_time in T, -2000 for each rejection
\* recorded, -20000 for each passenger finalized as unserved (when the call
\* is the one that finalized), and 9000 - 5 wait - 2 ride for each
\* passenger that arrived
ExpectedReward(S, T) ==
    LET unboarded == {k \in 1..Len(T.passengers) :
                          T.passengers[k].board_time = None}
        finalizedNow == IF T.finalized /\ ~S.finalized THEN Unserved(T) ELSE 0
        arrivedNow == Arrived(T) \ Arrived(S)
        gain == [k \in arrivedNow |->
                     9000
                         - 5 * (T.passengers[k].board_time
                                    - T.passengers[k].appear_time)
                         - 2 * (T.passengers[k].arrive_time
                                    - T.passengers[k].board_time)]
    IN  0 - 15 * Cardinality(unboarded)
            - 2000 * (T.metrics.rejected - S.metrics.rejected)
            - 20000 * finalizedNow
            + SumOver(arrivedNow, gain)

\* C24: every step call returns the reward of the claim's formula; the
\* unserved penalty is charged by the call that finalizes, and by no other
C24_RewardAccounting ==
    \A in \in ValidStepInputs :
        /\ StepResult(in).raised = "none"
        /\ StepResult(in).reward = ExpectedReward(Env, StepResult(in).env)

\* the calls step makes up to the length test of apply_actions
\* (environment.py:78-81), on the current state
UpToLengthTest(in) ==
    apply_actions(
        dispatch_new(spawn_passengers(Env, config, in.rng.draw, in.rng.origin,
                                      in.rng.dest)),
        config, in.actions)

\* C25: a step call with an actions sequence of the wrong length fails on
\* the length and leaves the engine as it was: the state in which the
\* length test raises, and the state step leaves, are the state before
C25_FailedStepAtomic ==
    \A in \in MismatchedStepInputs :
        /\ StepResult(in).raised = "ValueError"
        /\ StepResult(in).env = Env
        /\ UpToLengthTest(in).raised = "ValueError"
        /\ UpToLengthTest(in).env = Env

\* C26: the origin floor of every passenger that is assigned to an
\* elevator and has not boarded is in that elevator's target_queue
C26_WaitingNotForgotten ==
    \A pid \in Pids :
        (passengers[pid].assigned_elevator # None
             /\ passengers[pid].board_time = None) =>
            \E i \in Elevators :
                /\ elevators[i].id = passengers[pid].assigned_elevator
                /\ passengers[pid].origin_floor
                       \in Range(elevators[i].target_queue)

\* a passenger waits at floor 1 for an elevator that has gone up to floor 2
\* first and dwells there: floor 1 is still in its queue
C26_WaitingBehind ==
    \E pid \in Pids :
        \E i \in Elevators :
            /\ passengers[pid].assigned_elevator = elevators[i].id
            /\ passengers[pid].board_time = None
            /\ passengers[pid].origin_floor = 1
            /\ elevators[i].current_floor = 2
            /\ elevators[i].move_state = "dwell"
            /\ 1 \in Range(elevators[i].target_queue)

=============================================================================
